---------------------------- MODULE Spec2Model ----------------------------
(* A model of the anyrun 1Password plugin (src/src/lib.rs): the item index   *)
(* built by init, the per-query ranking of get_matches, and the two-stage    *)
(* selection flow of handler.  Strings that the code inspects character by   *)
(* character (queries, prefixes, titles, domains, command output that is     *)
(* trimmed) are sequences of one-character strings; strings that the code    *)
(* only compares or copies (item ids, field ids, field types) are atoms.     *)
(* An Option is a sequence of length at most one.                            *)
EXTENDS Integers, Sequences, FiniteSets, TLC

(***************************************************************************)
(* Bounds of the model.                                                    *)
(***************************************************************************)
MaxQueryLen == 2
MaxItems == 2

None == << >>
Some(v) == << v >>
IsSome(o) == Len(o) = 1
Unwrap(o) == o[1]

Max2(a, b) == IF a >= b THEN a ELSE b

RECURSIVE SeqsUpTo(_, _)
SeqsUpTo(S, n) ==
    IF n = 0 THEN { << >> }
    ELSE LET shorter == SeqsUpTo(S, n - 1)
         IN  shorter \cup { Append(s, c) : s \in { t \in shorter : Len(t) = n - 1 }, c \in S }

(***************************************************************************)
(* Text.                                                                   *)
(***************************************************************************)
IsUpper(c) == c \in {"A", "B"}
Lower(c) == IF c = "A" THEN "a" ELSE IF c = "B" THEN "b" ELSE c
IsSpace(c) == c \in {" ", "\n"}

\* str::starts_with
StartsWith(s, p) == Len(p) <= Len(s) /\ SubSeq(s, 1, Len(p)) = p

\* &input[prefix.len()..]
Slice(s, n) == SubSeq(s, n + 1, Len(s))

\* str::trim: the longest slice with no leading or trailing whitespace
RECURSIVE TrimStart(_)
TrimStart(s) == IF s # << >> /\ IsSpace(Head(s)) THEN TrimStart(Tail(s)) ELSE s
RECURSIVE TrimEnd(_)
TrimEnd(s) ==
    IF s # << >> /\ IsSpace(s[Len(s)]) THEN TrimEnd(SubSeq(s, 1, Len(s) - 1)) ELSE s
Trim(s) == TrimEnd(TrimStart(s))

(***************************************************************************)
(* SkimMatcherV2::default().smart_case().fuzzy_match(choice, pattern):     *)
(* None unless pattern is a subsequence of choice; the empty pattern       *)
(* scores 0; each matched character scores, a match at the head or next to *)
(* the previous match earns a bonus, skipped characters and case           *)
(* mismatches cost.  A pattern with an upper-case letter is matched        *)
(* case-sensitively, any other pattern case-insensitively.                 *)
(***************************************************************************)
NoMatch == 0 - 1000

CaseSensitive(pattern) == \E k \in 1..Len(pattern) : IsUpper(pattern[k])

CharMatches(c, p, sensitive) == IF sensitive THEN c = p ELSE Lower(c) = Lower(p)

CharScore(c, p, i, prev) ==
    16
    + (IF i = 1 THEN 8 ELSE 0)
    + (IF prev > 0 /\ i = prev + 1 THEN 8 ELSE 0)
    - (IF prev > 0 /\ i > prev + 1 THEN 3 + (i - prev - 2) ELSE 0)
    - (IF prev = 0 THEN i - 1 ELSE 0)
    - (IF c # p THEN 2 ELSE 0)

RECURSIVE BestFrom(_, _, _, _, _, _)
BestFrom(choice, pattern, i, j, prev, sensitive) ==
    IF j > Len(pattern) THEN 0
    ELSE IF i > Len(choice) THEN NoMatch
    ELSE LET skip == BestFrom(choice, pattern, i + 1, j, prev, sensitive)
             rest == BestFrom(choice, pattern, i + 1, j + 1, i, sensitive)
             take == IF CharMatches(choice[i], pattern[j], sensitive) /\ rest # NoMatch
                     THEN rest + CharScore(choice[i], pattern[j], i, prev)
                     ELSE NoMatch
         IN  Max2(skip, take)

fuzzy_match(choice, pattern) ==
    LET best == BestFrom(choice, pattern, 1, 1, 0, CaseSensitive(pattern))
    IN  IF best = NoMatch THEN None ELSE Some(best)

UnwrapOr(o, d) == IF IsSome(o) THEN Unwrap(o) ELSE d

(***************************************************************************)
(* Configuration (struct Config).  load_config yields any values; the      *)
(* model draws them from a small set.                                      *)
(***************************************************************************)
Prefixes == { << >>, << "a" >> }
Configs == [ prefix : Prefixes, max_entries : 1..MaxItems ]

(***************************************************************************)
(* The catalog as the listing command prints it: items with raw URLs.      *)
(* A raw URL is described by what Url::parse makes of it.                   *)
(***************************************************************************)
UrlWeb == [ parses |-> TRUE, host |-> Some(<< "b", "a" >>), raw |-> << "h", ":", "b", "a" >> ]
UrlNoHost == [ parses |-> TRUE, host |-> None, raw |-> << "m", ":", "a" >> ]
UrlBare == [ parses |-> FALSE, host |-> None, raw |-> << "a" >> ]

RawItems ==
    { [ id |-> "idX", title |-> << "A", "b" >>, category |-> "LOGIN",
        urls |-> << UrlWeb >> ],
      [ id |-> "idY", title |-> << "b", "b" >>, category |-> "CREDIT_CARD",
        urls |-> << UrlNoHost, UrlBare >> ],
      [ id |-> "idZ", title |-> << "a" >>, category |-> "SECURE_NOTE",
        urls |-> << >> ] }

Catalogs == SeqsUpTo(RawItems, MaxItems)

(***************************************************************************)
(* Detail records as the item-detail command prints them (OpGetItem).      *)
(***************************************************************************)
Field(id, tpe, value) == [ id |-> id, tpe |-> tpe, value |-> value ]

DetailRecords ==
    { << Field("username", "STRING", Some(<< "u" >>)),
         Field("password", "CONCEALED", Some(<< "p" >>)),
         Field("totp", "OTP", Some(<< "s" >>)) >>,
      << Field("username", "STRING", Some(<< >>)),
         Field("password", "CONCEALED", None) >>,
      << Field("ccnum", "CREDIT_CARD_NUMBER", Some(<< "4" >>)),
         Field("cvv", "CONCEALED", Some(<< "1" >>)),
         Field("expiry", "MONTH_YEAR", Some(<< "9" >>)) >>,
      << Field("username", "STRING", None),
         Field("username", "STRING", Some(<< "v" >>)) >>,
      << Field("notes", "OTP", None) >>,
      << >> }

\* What the OTP-mint command prints.
OtpTexts ==
    { << "7", "\n" >>, << " ", "7", " ", "7", "\n" >>, << "7" >>, << "\n" >>, << >> }

(***************************************************************************)
(* Command output and process outcomes.                                    *)
(***************************************************************************)
Garbage == [ doc |-> "garbage" ]
CatalogDoc(c) == [ doc |-> "catalog", items |-> c ]
DetailDoc(r) == [ doc |-> "item", fields |-> r ]
PlainText(t) == [ doc |-> "plain", chars |-> t ]

\* std::process::Output as execute_command sees it: whether the program was
\* spawned, its exit code (None when a signal ended it), and its stdout
\* (None when the bytes are not UTF-8).
SpawnFailure == [ spawned |-> FALSE, code |-> None, stdout |-> None ]
Signaled == [ spawned |-> TRUE, code |-> None, stdout |-> None ]
Exited(code, stdout) == [ spawned |-> TRUE, code |-> Some(code), stdout |-> stdout ]

Failures == { SpawnFailure, Signaled, Exited(1, None), Exited(0, None), Exited(0, Some(Garbage)) }

ListOutcomes == Failures \cup { Exited(0, Some(CatalogDoc(c))) : c \in Catalogs }
DetailOutcomes == Failures \cup { Exited(0, Some(DetailDoc(r))) : r \in DetailRecords }
OtpOutcomes ==
    { SpawnFailure, Signaled, Exited(1, None), Exited(0, None) }
        \cup { Exited(0, Some(PlainText(t))) : t \in OtpTexts }

Ok(v) == [ tag |-> "Ok", val |-> v ]
Err(e) == [ tag |-> "Err", err |-> e ]
Panic == [ tag |-> "Panic" ]

\* fn execute_command, given what running the program produced.
execute_command(out) ==
    IF ~out.spawned THEN Err("OpCommandFailed")
    ELSE IF out.code = Some(0)
         THEN IF IsSome(out.stdout) THEN Ok(Unwrap(out.stdout)) ELSE Err("ReadOutputError")
         ELSE IF IsSome(out.code) THEN Err("OpReturnCodeError") ELSE Panic

ITEM_LIST_ARGS == << "item", "list", "--format=json" >>

\* One entry of the log of commands an entry point has run.
Invocation(args, out) == [ args |-> args, out |-> out ]

\* fn host_from_url
host_from_url(u) == IF u.parses THEN u.host ELSE Some(u.raw)

\* serde_json::from_str::<Vec<OpListItem>>
ParseList(text) ==
    IF text.doc = "catalog"
    THEN Ok([ k \in 1..Len(text.items) |->
                [ id |-> text.items[k].id,
                  title |-> text.items[k].title,
                  category |-> text.items[k].category,
                  urls |-> [ u \in 1..Len(text.items[k].urls) |->
                               [ href |-> host_from_url(text.items[k].urls[u]) ] ] ] ])
    ELSE Err("ParsingError")

\* serde_json::from_str::<OpGetItem>
ParseItem(text) == IF text.doc = "item" THEN Ok(text.fields) ELSE Err("ParsingError")

Supported(item) == item.category \in { "PASSWORD", "LOGIN", "CREDIT_CARD" }

RECURSIVE Filter(_)
Filter(s) ==
    IF s = << >> THEN << >>
    ELSE IF Supported(Head(s)) THEN << Head(s) >> \o Filter(Tail(s)) ELSE Filter(Tail(s))

\* An enumeration that numbers the kept items from 1.
EnumerateFromOne(s) ==
    LET kept == Filter(s) IN [ k \in 1..Len(kept) |-> [ id |-> k, item |-> kept[k] ] ]

\* .filter(..).enumerate().map(|(id, item)| (id as u64, item))
Enumerate(s) ==
    LET kept == Filter(s) IN [ k \in 1..Len(kept) |-> [ id |-> k - 1, item |-> kept[k] ] ]

\* A listing that retries after any error of the first invocation.
ListingRetriesAnyError(out1, out2) ==
    LET first == execute_command(out1)
    IN  IF first.tag = "Err"
        THEN [ runs |-> << Invocation(ITEM_LIST_ARGS, out1), Invocation(ITEM_LIST_ARGS, out2) >>,
               content |-> execute_command(out2) ]
        ELSE [ runs |-> << Invocation(ITEM_LIST_ARGS, out1) >>, content |-> first ]

\* The listing of init (the match on the first execute_command): the
\* invocations made, and the result init goes on with.
Listing(out1, out2) ==
    LET first == execute_command(out1)
    IN  IF first = Err("OpReturnCodeError")
        THEN [ runs |-> << Invocation(ITEM_LIST_ARGS, out1), Invocation(ITEM_LIST_ARGS, out2) >>,
               content |-> execute_command(out2) ]
        ELSE [ runs |-> << Invocation(ITEM_LIST_ARGS, out1) >>, content |-> first ]

\* An init that falls back to an empty index instead of unwrapping.
InitOrEmptyIndex(cfg, out1, out2) ==
    LET content == Listing(out1, out2).content
        decoded == IF content.tag = "Ok" THEN ParseList(content.val) ELSE content
    IN  Ok([ config |-> cfg,
             items |-> IF decoded.tag = "Ok" THEN Enumerate(decoded.val) ELSE << >>,
             input |-> None, selection |-> None ])

\* fn init: the State it returns, or the panic of its unwrap.
init(cfg, out1, out2) ==
    LET content == Listing(out1, out2).content
        decoded == IF content.tag = "Ok" THEN ParseList(content.val) ELSE content
    IN  IF decoded.tag = "Ok"
        THEN Ok([ config |-> cfg, items |-> Enumerate(decoded.val),
                  input |-> None, selection |-> None ])
        ELSE IF decoded.tag = "Err" THEN [ tag |-> "Panic", err |-> decoded.err ]
        ELSE [ tag |-> "Panic", err |-> "NoExitCode" ]

(***************************************************************************)
(* Ranking (display_matching_items).                                       *)
(***************************************************************************)
\* The scores of the hrefs that are present, in order.
RECURSIVE DomainScores(_, _)
DomainScores(urls, pattern) ==
    IF urls = << >> THEN << >>
    ELSE LET rest == DomainScores(Tail(urls), pattern)
         IN  IF IsSome(Head(urls).href)
             THEN << UnwrapOr(fuzzy_match(Unwrap(Head(urls).href), pattern), 0) >> \o rest
             ELSE rest

\* Iterator::max().unwrap_or(0)
RECURSIVE MaxOr0(_)
MaxOr0(s) ==
    IF s = << >> THEN 0
    ELSE IF Len(s) = 1 THEN s[1]
    ELSE Max2(Head(s), MaxOr0(Tail(s)))

ItemScore(e, pattern) ==
    LET title_score == UnwrapOr(fuzzy_match(e.title, pattern), 0)
        domain_score == MaxOr0(DomainScores(e.urls, pattern))
    IN  Max2(title_score, domain_score)

\* The filter_map over state.items: (id, e, score) for every score > 0.
RECURSIVE Scored(_, _)
Scored(its, pattern) ==
    IF its = << >> THEN << >>
    ELSE LET score == ItemScore(Head(its).item, pattern)
             rest == Scored(Tail(its), pattern)
         IN  IF score > 0
             THEN << [ id |-> Head(its).id, e |-> Head(its).item, score |-> score ] >> \o rest
             ELSE rest

\* An insertion that puts an entry before the entries of equal score: the
\* sort it gives is descending but not stable.
InsertBeforeEqual(sorted, x) ==
    LET n == Cardinality({ k \in 1..Len(sorted) : sorted[k].score > x.score })
    IN  SubSeq(sorted, 1, n) \o << x >> \o SubSeq(sorted, n + 1, Len(sorted))

\* entries.sort_by(|a, b| b.2.cmp(&a.2)): a stable sort, descending by score.
InsertByScore(sorted, x) ==
    LET n == Cardinality({ k \in 1..Len(sorted) : sorted[k].score >= x.score })
    IN  SubSeq(sorted, 1, n) \o << x >> \o SubSeq(sorted, n + 1, Len(sorted))

RECURSIVE SortByScore(_)
SortByScore(s) ==
    IF s = << >> THEN << >>
    ELSE InsertByScore(SortByScore(SubSeq(s, 1, Len(s) - 1)), s[Len(s)])

\* A truncation that keeps one entry more than asked.
TruncateOneMore(s, n) == IF Len(s) > n + 1 THEN SubSeq(s, 1, n + 1) ELSE s

\* Vec::truncate
Truncate(s, n) == IF Len(s) > n THEN SubSeq(s, 1, n) ELSE s

Match(title, id) == [ title |-> title, id |-> Some(id) ]

\* A display_matching_items that ranks whatever the prefix.
DisplayIgnoringPrefix(input, st) ==
    LET cleaned_input == Slice(input, Len(st.config.prefix))
        entries == Truncate(SortByScore(Scored(st.items, cleaned_input)),
                            st.config.max_entries)
    IN  [ matches |-> [ k \in 1..Len(entries) |-> Match(entries[k].e.title, entries[k].id) ],
          input |-> Some(input),
          scored |-> { st.items[k].id : k \in 1..Len(st.items) } ]

\* A display_matching_items that records the input without its prefix.
DisplayRecordingCleaned(input, st) ==
    IF ~StartsWith(input, st.config.prefix)
    THEN [ matches |-> << >>, input |-> st.input, scored |-> {} ]
    ELSE LET cleaned_input == Slice(input, Len(st.config.prefix))
             entries == Truncate(SortByScore(Scored(st.items, cleaned_input)),
                                 st.config.max_entries)
         IN  [ matches |-> [ k \in 1..Len(entries) |-> Match(entries[k].e.title, entries[k].id) ],
               input |-> Some(cleaned_input),
               scored |-> { st.items[k].id : k \in 1..Len(st.items) } ]

\* A display_matching_items that does not record the input it ranked for.
DisplayNotRecording(input, st) ==
    IF ~StartsWith(input, st.config.prefix)
    THEN [ matches |-> << >>, input |-> st.input, scored |-> {} ]
    ELSE LET cleaned_input == Slice(input, Len(st.config.prefix))
             entries == Truncate(SortByScore(Scored(st.items, cleaned_input)),
                                 st.config.max_entries)
         IN  [ matches |-> [ k \in 1..Len(entries) |-> Match(entries[k].e.title, entries[k].id) ],
               input |-> st.input,
               scored |-> { st.items[k].id : k \in 1..Len(st.items) } ]

\* fn display_matching_items: the matches returned, state.input afterwards,
\* and the handles of the items that were scored.
display_matching_items(input, st) ==
    IF ~StartsWith(input, st.config.prefix)
    THEN [ matches |-> << >>, input |-> st.input, scored |-> {} ]
    ELSE LET cleaned_input == Slice(input, Len(st.config.prefix))
             entries == Truncate(SortByScore(Scored(st.items, cleaned_input)),
                                 st.config.max_entries)
         IN  [ matches |-> [ k \in 1..Len(entries) |-> Match(entries[k].e.title, entries[k].id) ],
               input |-> Some(input),
               scored |-> { st.items[k].id : k \in 1..Len(st.items) } ]

(***************************************************************************)
(* The field list (display_selection_items).                               *)
(***************************************************************************)
Slot(present, title, id) == IF present THEN << Match(title, id) >> ELSE << >>

\* A field list that gives the card number the handle of the security code
\* and the security code the handle of the card number.
DisplaySelectionSwappedHandles(selection) ==
    Slot(IsSome(selection.username), << "Username" >>, 0)
        \o Slot(IsSome(selection.password), << "Password" >>, 1)
        \o Slot(selection.has_otp, << "One-time password" >>, 2)
        \o Slot(IsSome(selection.ccnum), << "Number" >>, 4)
        \o Slot(IsSome(selection.cvv), << "CCV" >>, 3)
        \o Slot(IsSome(selection.expiry), << "Expiry" >>, 5)

display_selection_items(selection) ==
    Slot(IsSome(selection.username), << "Username" >>, 0)
        \o Slot(IsSome(selection.password), << "Password" >>, 1)
        \o Slot(selection.has_otp, << "One-time password" >>, 2)
        \o Slot(IsSome(selection.ccnum), << "Number" >>, 3)
        \o Slot(IsSome(selection.cvv), << "CCV" >>, 4)
        \o Slot(IsSome(selection.expiry), << "Expiry" >>, 5)

\* A get_matches that ranks anew after a different query but keeps the selection.
GetMatchesKeepingSelection(input, st) ==
    LET redisplay == st.selection # None /\ st.input = Some(input)
        r == display_matching_items(input, st)
    IN  IF redisplay
        THEN [ selection |-> st.selection, input |-> st.input,
               matches |-> display_selection_items(Unwrap(st.selection)), scored |-> {} ]
        ELSE [ selection |-> st.selection, input |-> r.input, matches |-> r.matches,
               scored |-> r.scored ]

\* A get_matches that ranks anew on every query while it keeps the selection
\* for the query that led to it.
GetMatchesAlwaysRanking(input, st) ==
    LET redisplay == st.selection # None /\ st.input = Some(input)
        st1 == IF st.selection # None /\ st.input # None /\ ~redisplay
               THEN [ st EXCEPT !.selection = None, !.input = None ]
               ELSE st
        r == display_matching_items(input, st1)
    IN  [ selection |-> st1.selection, input |-> r.input, matches |-> r.matches,
          scored |-> r.scored ]

(***************************************************************************)
(* fn get_matches: the state afterwards, the matches returned and the      *)
(* handles scored.                                                         *)
(***************************************************************************)
get_matches(input, st) ==
    LET redisplay == st.selection # None /\ st.input = Some(input)
        st1 == IF st.selection # None /\ st.input # None /\ ~redisplay
               THEN [ st EXCEPT !.selection = None, !.input = None ]
               ELSE st
        r == display_matching_items(input, st1)
    IN  IF redisplay
        THEN [ selection |-> st.selection, input |-> st.input,
               matches |-> display_selection_items(Unwrap(st.selection)), scored |-> {} ]
        ELSE [ selection |-> st1.selection, input |-> r.input, matches |-> r.matches,
               scored |-> r.scored ]

(***************************************************************************)
(* fn handler.                                                             *)
(***************************************************************************)
\* A lookup that stops at the first entry with the id, with or without a value.
RECURSIVE FindValueFirstEntry(_, _)
FindValueFirstEntry(fields, key) ==
    IF fields = << >> THEN None
    ELSE IF Head(fields).id = key THEN Head(fields).value
    ELSE FindValueFirstEntry(Tail(fields), key)

\* fields.iter().find_map(|f| if f.id == key { f.value.clone() } else { None })
RECURSIVE FindValue(_, _)
FindValue(fields, key) ==
    IF fields = << >> THEN None
    ELSE IF Head(fields).id = key /\ IsSome(Head(fields).value) THEN Head(fields).value
    ELSE FindValue(Tail(fields), key)

\* A has_otp that asks for an entry of type OTP that carries a value.
HasOtpWithValue(fields) ==
    \E k \in 1..Len(fields) : fields[k].tpe = "OTP" /\ IsSome(fields[k].value)

\* fields.iter().any(|f| f.tpe == "OTP")
HasOtp(fields) == \E k \in 1..Len(fields) : fields[k].tpe = "OTP"

\* A lookup that takes the first indexed item whatever the handle.
FindItemIdFirst(its, h) ==
    IF its = << >> THEN None ELSE Some(Head(its).item.id)

\* state.items.iter().find_map(|(id, item)| if *id == h { Some(item.id) } else { None })
RECURSIVE FindItemId(_, _)
FindItemId(its, h) ==
    IF its = << >> THEN None
    ELSE IF Head(its).id = h THEN Some(Head(its).item.id)
    ELSE FindItemId(Tail(its), h)

\* An extraction that looks for the card number under the id "number".
ExtractWrongCardKey(id, fields) ==
    [ id |-> id,
      username |-> FindValue(fields, "username"),
      password |-> FindValue(fields, "password"),
      has_otp |-> HasOtp(fields),
      ccnum |-> FindValue(fields, "number"),
      cvv |-> FindValue(fields, "cvv"),
      expiry |-> FindValue(fields, "expiry") ]

Extract(id, fields) ==
    [ id |-> id,
      username |-> FindValue(fields, "username"),
      password |-> FindValue(fields, "password"),
      has_otp |-> HasOtp(fields),
      ccnum |-> FindValue(fields, "ccnum"),
      cvv |-> FindValue(fields, "cvv"),
      expiry |-> FindValue(fields, "expiry") ]

Refresh == [ tag |-> "Refresh", exclusive |-> TRUE ]
Copy(bytes) == [ tag |-> "Copy", bytes |-> bytes ]
Close == [ tag |-> "Close" ]
Panicked(why) == [ tag |-> "Panic", err |-> why ]

\* s.<slot>.as_ref().unwrap().as_bytes().into()
CopySlot(value) == IF IsSome(value) THEN Copy(Unwrap(value)) ELSE Panicked("UnwrapNone")

\* The arm of handler that runs while nothing is selected: resolve the
\* handle, fetch the item, extract its fields.
PickItem(id, st, out) ==
    LET ext == IF IsSome(id) THEN FindItemId(st.items, Unwrap(id)) ELSE None
        run == Invocation(<< "items", "get", UnwrapOr(ext, ""), "--format=json" >>, out)
        got == execute_command(out)
        selected_item == IF got.tag = "Ok" THEN ParseItem(got.val) ELSE got
    IN  IF ext = None
        THEN [ selection |-> None, result |-> Panicked("UnwrapNone"), cmds |-> << >> ]
        ELSE IF selected_item.tag = "Ok"
        THEN [ selection |-> Some(Extract(Unwrap(ext), selected_item.val)),
               result |-> Refresh, cmds |-> << run >> ]
        ELSE [ selection |-> None,
               result |-> Panicked(IF selected_item.tag = "Err" THEN selected_item.err
                                   ELSE "NoExitCode"),
               cmds |-> << run >> ]

\* A field pick that mints the one-time password again when the first
\* invocation failed.
PickFieldRetryingOtp(id, st, out) ==
    LET s == Unwrap(st.selection)
        run == Invocation(<< "items", "get", s.id, "--otp" >>, out)
        otp == execute_command(out)
    IN  IF id = Some(2)
        THEN [ selection |-> st.selection,
               result |-> IF otp.tag = "Ok" THEN Copy(Trim(otp.val.chars))
                          ELSE Panicked(IF otp.tag = "Err" THEN otp.err ELSE "NoExitCode"),
               cmds |-> IF otp.tag = "Ok" THEN << run >> ELSE << run, run >> ]
        ELSE [ selection |-> st.selection,
               result |-> IF id = Some(0) THEN CopySlot(s.username)
                          ELSE IF id = Some(1) THEN CopySlot(s.password)
                          ELSE IF id = Some(3) THEN CopySlot(s.ccnum)
                          ELSE IF id = Some(4) THEN CopySlot(s.cvv)
                          ELSE IF id = Some(5) THEN CopySlot(s.expiry)
                          ELSE Close,
               cmds |-> << >> ]

\* A field pick that drops the selection once it has handed off a payload
\* or closed.
PickFieldDroppingSelection(id, st, out) ==
    LET s == Unwrap(st.selection)
        run == Invocation(<< "items", "get", s.id, "--otp" >>, out)
        otp == execute_command(out)
        res == IF id = Some(0) THEN CopySlot(s.username)
               ELSE IF id = Some(1) THEN CopySlot(s.password)
               ELSE IF id = Some(2)
               THEN IF otp.tag = "Ok" THEN Copy(Trim(otp.val.chars))
                    ELSE Panicked(IF otp.tag = "Err" THEN otp.err ELSE "NoExitCode")
               ELSE IF id = Some(3) THEN CopySlot(s.ccnum)
               ELSE IF id = Some(4) THEN CopySlot(s.cvv)
               ELSE IF id = Some(5) THEN CopySlot(s.expiry)
               ELSE Close
    IN  [ selection |-> IF res.tag = "Panic" THEN st.selection ELSE None,
          result |-> res,
          cmds |-> IF id = Some(2) THEN << run >> ELSE << >> ]

\* The arm of handler that runs while an item is selected.
PickField(id, st, out) ==
    LET s == Unwrap(st.selection)
        run == Invocation(<< "items", "get", s.id, "--otp" >>, out)
        otp == execute_command(out)
    IN  IF id = Some(0) THEN [ selection |-> st.selection, result |-> CopySlot(s.username), cmds |-> << >> ]
        ELSE IF id = Some(1) THEN [ selection |-> st.selection, result |-> CopySlot(s.password), cmds |-> << >> ]
        ELSE IF id = Some(2)
        THEN [ selection |-> st.selection,
               result |-> IF otp.tag = "Ok" THEN Copy(Trim(otp.val.chars))
                          ELSE Panicked(IF otp.tag = "Err" THEN otp.err ELSE "NoExitCode"),
               cmds |-> << run >> ]
        ELSE IF id = Some(3) THEN [ selection |-> st.selection, result |-> CopySlot(s.ccnum), cmds |-> << >> ]
        ELSE IF id = Some(4) THEN [ selection |-> st.selection, result |-> CopySlot(s.cvv), cmds |-> << >> ]
        ELSE IF id = Some(5) THEN [ selection |-> st.selection, result |-> CopySlot(s.expiry), cmds |-> << >> ]
        ELSE [ selection |-> st.selection, result |-> Close, cmds |-> << >> ]

handler(id, st, out) ==
    IF st.selection = None THEN PickItem(id, st, out) ELSE PickField(id, st, out)

\* What the one command handler may run can produce.
HandlerOutcomes(id, st) ==
    IF st.selection = None THEN DetailOutcomes
    ELSE IF id = Some(2) THEN OtpOutcomes
    ELSE { SpawnFailure }

(***************************************************************************)
(* The session.                                                            *)
(***************************************************************************)
VARIABLES
    alive,          \* "unloaded", "ready" (init returned a State) or "panicked"
    config,         \* State.config
    items,          \* State.items
    input,          \* State.input
    selection,      \* State.selection
    last,           \* the entry point called last, and the match id handler was given
    held,           \* whether an item was selected when the last call began
    matches,        \* what get_matches returned last (the list the host shows)
    result,         \* what handler returned last, or the panic that ended the session
    cmds,           \* the commands the last call ran, with their outcomes
    scored,         \* the handles of the items the last call scored
    entry,          \* the host: the text of the last query, the input of get_matches
    pending         \* the host: a Refresh it has not yet acted on

vars == << alive, config, items, input, selection, last, held, matches, result, cmds,
           scored, entry, pending >>

St == [ config |-> config, items |-> items, input |-> input, selection |-> selection ]

QueryChars == { "a", "A" }
Queries == SeqsUpTo(QueryChars, MaxQueryLen)

Init ==
    /\ alive = "unloaded"
    /\ config \in Configs
    /\ items = << >>
    /\ input = None
    /\ selection = None
    /\ last = [ fn |-> "none", id |-> None ]
    /\ held = FALSE
    /\ matches = << >>
    /\ result = [ tag |-> "None" ]
    /\ cmds = << >>
    /\ scored = {}
    /\ entry = << >>
    /\ pending = FALSE

\* The host loads the plugin: init runs once.
Load ==
    /\ alive = "unloaded"
    /\ \E out1 \in ListOutcomes, out2 \in ListOutcomes :
         LET r == init(config, out1, out2)
         IN  /\ alive' = IF r.tag = "Ok" THEN "ready" ELSE "panicked"
             /\ items' = IF r.tag = "Ok" THEN r.val.items ELSE items
             /\ result' = IF r.tag = "Ok" THEN [ tag |-> "None" ] ELSE Panicked(r.err)
             /\ cmds' = Listing(out1, out2).runs
    /\ last' = [ fn |-> "init", id |-> None ]
    /\ UNCHANGED << config, input, selection, held, matches, scored, entry, pending >>

\* A call of get_matches.
GetMatchesCall(q) ==
    LET r == get_matches(q, St)
    IN  /\ selection' = r.selection
        /\ input' = r.input
        /\ matches' = r.matches
        /\ scored' = r.scored
        /\ cmds' = << >>
        /\ last' = [ fn |-> "get_matches", id |-> None ]
        /\ held' = (selection # None)
        /\ UNCHANGED << alive, config, items, result >>

\* A call of handler with the match whose id is given.
HandlerCall(id) ==
    \E out \in HandlerOutcomes(id, St) :
        LET r == handler(id, St, out)
        IN  /\ selection' = r.selection
            /\ result' = r.result
            /\ cmds' = r.cmds
            /\ alive' = IF r.result.tag = "Panic" THEN "panicked" ELSE alive
            /\ pending' = (r.result.tag = "Refresh")
            /\ last' = [ fn |-> "handler", id |-> id ]
            /\ held' = (selection # None)
            /\ scored' = {}
            /\ UNCHANGED << config, items, input, matches, entry >>

(***************************************************************************)
(* The host as the plugin contract describes it: one call at a time, a     *)
(* pick only of a match of the list shown, and after a Refresh the query   *)
(* issued again with the text of the entry before anything else.           *)
(***************************************************************************)
HostQuery ==
    /\ alive = "ready"
    /\ \E q \in (IF pending THEN { entry } ELSE Queries) : GetMatchesCall(q) /\ entry' = q
    /\ pending' = FALSE

HostPick ==
    /\ alive = "ready" /\ ~pending
    /\ \E k \in 1..Len(matches) : HandlerCall(matches[k].id)

Next == Load \/ HostQuery \/ HostPick

Spec == Init /\ [][Next]_vars

(***************************************************************************)
(* A host that keeps to the list when it picks an item, but may hand       *)
(* handler any match id while an item is selected.                         *)
(***************************************************************************)
MaxPickId == 6
PickIds == { None } \cup { Some(h) : h \in 0..MaxPickId }

AnyFieldPick ==
    /\ alive = "ready" /\ ~pending
    /\ selection # None
    /\ \E id \in PickIds : HandlerCall(id)

NextAnyId == Load \/ HostQuery \/ HostPick \/ AnyFieldPick

SpecAnyId == Init /\ [][NextAnyId]_vars

(***************************************************************************)
(* What the environment did, read off the log of the last call.            *)
(***************************************************************************)
\* Spawn failure, an exit that is not a clean one, or output that is not text.
CommandFailed(out) == ~out.spawned \/ out.code # Some(0) \/ out.stdout = None
NonZeroExit(out) == out.spawned /\ IsSome(out.code) /\ out.code # Some(0)
Prints(out, doc) == ~CommandFailed(out) /\ Unwrap(out.stdout).doc = doc

Searching == selection = None
FieldPicking == selection # None
SelectionFields == { "id", "username", "password", "has_otp", "ccnum", "cvv", "expiry" }

(***************************************************************************)
(* Properties.                                                             *)
(***************************************************************************)

\* C1: a query that differs from last_query while an item is selected
\* discards the selection (the state is Searching again) and returns the
\* item candidates of the new query, which is the empty list when the query
\* lacks the configured prefix.
C1_DifferingQueryReverts ==
    [][ (FieldPicking /\ last'.fn = "get_matches" /\ input # Some(entry'))
          => /\ selection' = None
             /\ matches' = display_matching_items(
                               entry', [ St EXCEPT !.selection = None, !.input = None ]).matches
             /\ (~StartsWith(entry', config.prefix) => matches' = << >> /\ input' = None)
      ]_vars

\* A differing query arrived while an item was selected, and candidates came back.
C1_Witness ==
    last.fn = "get_matches" /\ held /\ Searching /\ matches # << >>

\* C2: while an item is selected, a field pick that returns leaves
\* selection and input as they are, and the query equal to input then
\* returns the field list of that selection, runs no command and changes
\* neither selection nor input.
C2_RedisplayIdempotent ==
    [][ /\ (FieldPicking /\ last'.fn = "handler" /\ alive' = "ready")
            => (selection' = selection /\ input' = input)
        /\ (FieldPicking /\ last'.fn = "get_matches" /\ input = Some(entry'))
            => /\ matches' = display_selection_items(Unwrap(selection))
               /\ cmds' = << >>
               /\ selection' = selection
               /\ input' = input
      ]_vars

\* A pick of an id that is no slot closed, and the same query then showed
\* the field list again.
C2_Witness ==
    /\ last.fn = "get_matches" /\ held /\ FieldPicking
    /\ result.tag = "Close"
    /\ matches = display_selection_items(Unwrap(selection))
    /\ matches # << >>

\* C3: whenever an item is selected, input is present and is the query
\* whose list the item was picked from (the text of the host's entry).
C3_InputIsTriggeringQuery ==
    FieldPicking => input = Some(entry)

\* An item was picked from the list of a prefixed query.
C3_Witness ==
    /\ last.fn = "handler" /\ ~held /\ FieldPicking
    /\ config.prefix # << >>
    /\ input = Some(entry)

\* C4: init runs the listing a second time, with the same arguments, exactly
\* when the first run exited non-zero, never a third time, and what init
\* yields is decided by the last run.
C4_ListingRetriedOnce ==
    last.fn = "init" =>
        /\ Len(cmds) \in { 1, 2 }
        /\ \A k \in 1..Len(cmds) : cmds[k].args = ITEM_LIST_ARGS
        /\ (Len(cmds) = 2) <=> NonZeroExit(cmds[1].out)
        /\ (alive = "ready") <=> Prints(cmds[Len(cmds)].out, "catalog")
        /\ alive = "ready"
             => items = Enumerate(ParseList(Unwrap(cmds[Len(cmds)].out.stdout)).val)

\* The first listing exited non-zero and the second one succeeded.
C4_Witness ==
    last.fn = "init" /\ Len(cmds) = 2 /\ NonZeroExit(cmds[1].out) /\ alive = "ready"

\* C5: when the listing exits non-zero twice, or its output does not decode
\* as a catalog, init yields no State: the session is over, with no index
\* and no result.
C5_FailedInitIsTerminal ==
    (/\ last.fn = "init"
     /\ \/ (Len(cmds) = 2 /\ NonZeroExit(cmds[1].out) /\ NonZeroExit(cmds[2].out))
        \/ (~CommandFailed(cmds[Len(cmds)].out) /\ ~Prints(cmds[Len(cmds)].out, "catalog")))
        => (alive = "panicked" /\ items = << >> /\ matches = << >>)

\* The listing exited non-zero twice.
C5_Witness ==
    /\ last.fn = "init" /\ Len(cmds) = 2
    /\ NonZeroExit(cmds[1].out) /\ NonZeroExit(cmds[2].out)
    /\ alive = "panicked"

\* C6: an item pick runs the item-detail command exactly once and a pick of
\* slot 2 runs the OTP command exactly once, whatever the outcome; any other
\* field pick runs nothing; the payload of slot 2 is the trimmed output of
\* that one run, and a selection has no place for it.
C6_FetchesRunOnce ==
    /\ (last.fn = "handler" /\ ~held)
         => (Len(cmds) = 1 /\ cmds[1].args[4] = "--format=json")
    /\ (last.fn = "handler" /\ held /\ last.id = Some(2))
         => /\ Len(cmds) = 1 /\ cmds[1].args[4] = "--otp"
            /\ result.tag = "Copy" => /\ Prints(cmds[1].out, "plain")
                                      /\ result.bytes = Trim(Unwrap(cmds[1].out.stdout).chars)
            /\ CommandFailed(cmds[1].out) => result.tag # "Copy"
    /\ (last.fn = "handler" /\ held /\ last.id # Some(2)) => cmds = << >>
    /\ FieldPicking => DOMAIN Unwrap(selection) = SelectionFields

\* The OTP command exited non-zero, and it was run once.
C6_Witness ==
    /\ last.fn = "handler" /\ held /\ last.id = Some(2)
    /\ Len(cmds) = 1 /\ NonZeroExit(cmds[1].out)

\* C7: a failed item-detail fetch closes the flow without a payload, leaves
\* nothing selected and leaves the session usable.
C7_DetailFailureCloses ==
    (/\ last.fn = "handler" /\ ~held /\ Len(cmds) = 1
     /\ (CommandFailed(cmds[1].out) \/ ~Prints(cmds[1].out, "item")))
        => (result.tag = "Close" /\ selection = None /\ alive = "ready")

\* C8: a failed OTP fetch returns Close, with no payload and no abort.
C8_OtpFailureCloses ==
    (/\ last.fn = "handler" /\ held /\ last.id = Some(2)
     /\ Len(cmds) = 1 /\ CommandFailed(cmds[1].out))
        => result.tag = "Close"

C10_UnprefixedQueryEmpty ==
    (/\ last.fn = "get_matches"
     /\ config.prefix # << >>
     /\ ~StartsWith(entry, config.prefix))
        => (matches = << >> /\ scored = {})

\* Such a query arrived while an item with fields to show was selected.
C10_Witness ==
    /\ last.fn = "get_matches" /\ held
    /\ config.prefix # << >> /\ ~StartsWith(entry, config.prefix)
    /\ entry # << >>
    /\ matches = << >>

(***************************************************************************)
(* The candidates of a query, read off the state after get_matches.        *)
(***************************************************************************)
\* get_matches returned item candidates: nothing is selected afterwards.
RankedState == last.fn = "get_matches" /\ Searching

\* The query without the configured prefix, as it was scored.
Cleaned == Slice(entry, Len(config.prefix))

\* The score of the indexed item with handle h for the last query.
HandleScore(h) ==
    LET k == CHOOSE k \in 1..Len(items) : items[k].id = h
    IN  ItemScore(items[k].item, Cleaned)

Handles == { items[k].id : k \in 1..Len(items) }
Listed == { Unwrap(matches[k].id) : k \in 1..Len(matches) }
Positive == { h \in Handles : HandleScore(h) > 0 }

\* Entry with handle g comes before entry with handle h in the ranking.
Before(g, h) ==
    \/ HandleScore(g) > HandleScore(h)
    \/ HandleScore(g) = HandleScore(h) /\ g < h

\* C11: the candidates of a query are in non-increasing score order, with
\* equal scores in increasing handle order, and the candidates left out by
\* the truncation all come after every candidate returned.
C11_RankedByScoreThenHandle ==
    (RankedState /\ StartsWith(entry, config.prefix))
        => /\ \A k \in 1..(Len(matches) - 1) :
                 Before(Unwrap(matches[k].id), Unwrap(matches[k + 1].id))
           /\ \A h \in Positive \ Listed : \A g \in Listed : Before(g, h)

\* Two candidates came back in the reverse of catalog order.
C11_Witness ==
    /\ RankedState /\ StartsWith(entry, config.prefix)
    /\ Len(matches) = 2
    /\ matches[1].id = Some(1) /\ matches[2].id = Some(0)

\* C12: the candidates are at most max_entries, at most the indexed items
\* whose score is above zero, and each of them is such an item, listed once.
C12_BoundedAndPositive ==
    RankedState
        => /\ Len(matches) <= config.max_entries
           /\ Len(matches) <= Cardinality(Positive)
           /\ Cardinality(Listed) = Len(matches)
           /\ Listed \subseteq Positive

\* The truncation cut a longer ranking down to max_entries.
C12_Witness ==
    /\ RankedState
    /\ Len(matches) = config.max_entries
    /\ Cardinality(Positive) > config.max_entries


(***************************************************************************)
(* The field list of a selection, read off the step that returns it: the   *)
(* item pick has returned Refresh, its log holds the detail record, and    *)
(* the query that follows returns the list.                                *)
(***************************************************************************)
\* The pick of an item has returned Refresh.
ItemPicked == last.fn = "handler" /\ ~held /\ result.tag = "Refresh"

\* The step from there: the host issues the query again.
RefreshStep == ItemPicked /\ last'.fn = "get_matches"

\* The fields of the detail record the item pick fetched.
Record == Unwrap(cmds[1].out.stdout).fields

\* The list shown offers the slot with handle k.
Offered(k) == \E j \in 1..Len(matches) : matches[j].id = Some(k)

\* The record has an entry with this id and a value that is not the empty string.
HasNonEmpty(key) ==
    \E j \in 1..Len(Record) :
        Record[j].id = key /\ IsSome(Record[j].value) /\ Unwrap(Record[j].value) # << >>

\* The record has an entry with this id and a value.
HasValue(key) ==
    \E j \in 1..Len(Record) : Record[j].id = key /\ IsSome(Record[j].value)

\* C13: the username slot (0) and the password slot (1) are offered if
\* and only if the detail record held a non-empty value for that field; an
\* empty-string value yields no slot.
C13_SlotIffNonEmptyValue ==
    [][ RefreshStep
          => /\ (Offered(0)' <=> HasNonEmpty("username"))
             /\ (Offered(1)' <=> HasNonEmpty("password"))
      ]_vars

\* What the field list and the payloads are specified to be.
SlotTitle(k) ==
    CASE k = 0 -> << "Username" >>
      [] k = 1 -> << "Password" >>
      [] k = 2 -> << "One-time password" >>
      [] k = 3 -> << "Number" >>
      [] k = 4 -> << "CCV" >>
      [] k = 5 -> << "Expiry" >>

SlotValue(s, k) ==
    CASE k = 0 -> s.username
      [] k = 1 -> s.password
      [] k = 3 -> s.ccnum
      [] k = 4 -> s.cvv
      [] k = 5 -> s.expiry

StoredSlots == { 0, 1, 3, 4, 5 }

\* C14: the field list is in the fixed order, its handles a strictly
\* increasing run within 0..5 with the title of each handle; no slot with a
\* stored value is offered without that value; and the pick of an offered
\* slot other than the one-time password returns a Copy of the stored value
\* and does not abort.
C14_FieldListOrderedAndCopied ==
    /\ (last.fn = "get_matches" /\ FieldPicking)
         => /\ \A k \in 1..(Len(matches) - 1) :
                  Unwrap(matches[k].id) < Unwrap(matches[k + 1].id)
            /\ \A k \in 1..Len(matches) :
                  /\ Unwrap(matches[k].id) \in 0..5
                  /\ matches[k].title = SlotTitle(Unwrap(matches[k].id))
                  /\ Unwrap(matches[k].id) \in StoredSlots
                       => IsSome(SlotValue(Unwrap(selection), Unwrap(matches[k].id)))
    /\ (last.fn = "handler" /\ held /\ last.id # None /\ Unwrap(last.id) \in StoredSlots)
         => /\ alive = "ready"
            /\ IsSome(SlotValue(Unwrap(selection), Unwrap(last.id)))
            /\ result = Copy(Unwrap(SlotValue(Unwrap(selection), Unwrap(last.id))))

\* The security code was picked from the field list and copied.
C14_Witness ==
    /\ last.fn = "handler" /\ held /\ last.id = Some(4)
    /\ result = Copy(<< "1" >>)
    /\ Len(matches) = 3


(***************************************************************************)
(* The two stages.                                                         *)
(***************************************************************************)
\* Every entry of the list shown is an indexed item under its handle.
ShowsCandidates ==
    \A k \in 1..Len(matches) :
        \E j \in 1..Len(items) :
            items[j].id = Unwrap(matches[k].id) /\ items[j].item.title = matches[k].title

\* The list shown is the field list of the selection.
ShowsFields == matches = display_selection_items(Unwrap(selection))

\* C15: with the host that re-issues the query after each Refresh, a
\* selection is present exactly when the list shown is its field list; a
\* selection never goes without a recorded query; no query ranks items
\* while a selection is held; and handler takes a handle as a field slot
\* only when it was picked from a field list, as an item handle only when
\* it was picked from the candidates.
C15_StageConsistent ==
    /\ FieldPicking => input # None
    /\ (FieldPicking /\ ~pending) => ShowsFields
    /\ Searching => ShowsCandidates
    /\ (last.fn = "get_matches" /\ FieldPicking) => scored = {}
    /\ (last.fn = "handler" /\ held)
         => ShowsFields /\ last.id # None /\ Offered(Unwrap(last.id))
    /\ (last.fn = "handler" /\ ~held)
         => last.id # None /\ Unwrap(last.id) \in Handles

\* Handle 0 was picked from a field list and copied; it is also the handle
\* of the first indexed item.
C15_Witness ==
    /\ last.fn = "handler" /\ held /\ last.id = Some(0)
    /\ result.tag = "Copy"
    /\ 0 \in Handles

\* C16: a pick of a candidate that returns, returns Refresh and leaves a
\* selection whose id is the external id of the indexed item with the
\* handle picked; the query issued again with the same text then returns
\* the field list of that selection and keeps it.
C16_PickSelectsItem ==
    [][ /\ (Searching /\ last'.fn = "handler" /\ alive' = "ready")
          => /\ result' = Refresh
             /\ selection' # None
             /\ \E k \in 1..Len(items) :
                   /\ Some(items[k].id) = last'.id
                   /\ Unwrap(selection').id = items[k].item.id
        /\ (RefreshStep /\ entry' = entry)
          => /\ selection' = selection
             /\ matches' = display_selection_items(Unwrap(selection))
      ]_vars

\* The second of two indexed items was picked and its field list returned.
C16_Witness ==
    /\ last.fn = "get_matches" /\ held /\ FieldPicking
    /\ result.tag = "Refresh"
    /\ Len(items) = 2 /\ items[1].item.id = "idX"
    /\ Unwrap(selection).id = "idY"
    /\ matches # << >>


(***************************************************************************)
(* The index against the catalog init decoded.                             *)
(***************************************************************************)
\* The catalog the last listing of init printed.
Catalog == Unwrap(cmds[Len(cmds)].out.stdout).items

\* The positions of the catalog whose category is indexed.
Kept ==
    { i \in 1..Len(Catalog) : Catalog[i].category \in { "PASSWORD", "LOGIN", "CREDIT_CARD" } }

\* The index holds the kept catalog items in catalog order under 0..n-1.
IndexIsFilteredCatalog ==
    /\ Len(items) = Cardinality(Kept)
    /\ \A i \in Kept :
         LET k == Cardinality({ j \in Kept : j < i }) + 1
         IN  /\ items[k].id = k - 1
             /\ items[k].item.id = Catalog[i].id
             /\ items[k].item.title = Catalog[i].title
             /\ items[k].item.category = Catalog[i].category

\* C17: after a load that succeeds the index is the catalog items of
\* category PASSWORD, LOGIN or CREDIT_CARD, in catalog order, under the
\* handles 0..n-1; no query and no pick changes the index; and every handle
\* among the candidates of a query is the handle of exactly one indexed item.
C17_IndexIsFilteredCatalog ==
    [][ /\ (last'.fn = "init" /\ alive' = "ready") => IndexIsFilteredCatalog'
        /\ alive = "ready" => items' = items
        /\ RankedState'
             => \A h \in Listed' :
                    Cardinality({ k \in 1..Len(items') : items'[k].id = h }) = 1
      ]_vars

\* The catalog began with an item of another category: the item after it
\* is indexed under handle 0.
C17_Witness ==
    /\ last.fn = "init" /\ alive = "ready"
    /\ Len(Catalog) = 2 /\ Catalog[1].category = "SECURE_NOTE"
    /\ Len(items) = 1 /\ items[1].id = 0


(***************************************************************************)
(* The card slots and the extraction.                                      *)
(***************************************************************************)
\* The category of the indexed item that was picked.
PickedCategory ==
    LET k == CHOOSE k \in 1..Len(items) : Some(items[k].id) = last.id
    IN  items[k].item.category

\* The card slots and the field ids they are extracted from.
CardSlots == { << 3, "ccnum" >>, << 4, "cvv" >>, << 5, "expiry" >> }

\* C18: a card slot (3, 4, 5) is offered if and only if the selected item
\* is a credit-card item and its detail record carries the value; for a
\* LOGIN or PASSWORD item no card slot is offered, whatever the record holds.
C18_CardSlotsOnlyForCards ==
    [][ RefreshStep
          => \A c \in CardSlots :
                 Offered(c[1])' <=> (PickedCategory = "CREDIT_CARD" /\ HasValue(c[2]))
      ]_vars

\* C18 as amended: a card slot is offered if and only if the detail record
\* carries a value under its field id, whatever the category of the item.
C18_CardSlotsFollowRecord ==
    [][ RefreshStep => \A c \in CardSlots : Offered(c[1])' <=> HasValue(c[2]) ]_vars

\* A LOGIN item is selected and its field list offers the card number.
C18_Witness ==
    /\ last.fn = "get_matches" /\ held /\ FieldPicking
    /\ \E k \in 1..Len(items) :
          items[k].item.id = Unwrap(selection).id /\ items[k].item.category = "LOGIN"
    /\ Offered(3)

ExtractedKeys == { "username", "password", "ccnum", "cvv", "expiry" }

\* The value of the first entry of the record with this id.
FirstWithId(key) ==
    LET idx == { j \in 1..Len(Record) : Record[j].id = key }
    IN  IF idx = {} THEN None
        ELSE Record[CHOOSE j \in idx : \A i \in idx : j <= i].value

\* The value of the first entry of the record with this id and a value.
FirstWithValue(key) ==
    LET idx == { j \in 1..Len(Record) : Record[j].id = key /\ IsSome(Record[j].value) }
    IN  IF idx = {} THEN None
        ELSE Record[CHOOSE j \in idx : \A i \in idx : j <= i].value

\* The item pick fetched a record that decodes.
RecordFetched ==
    last.fn = "handler" /\ ~held /\ Len(cmds) = 1 /\ Prints(cmds[1].out, "item")

\* C19: each extracted value is the value of the first entry whose id is
\* the key, absent when that entry has no value or no entry has the id; and
\* the extraction of a record that decodes never fails.
C19_FirstEntryWithId ==
    RecordFetched
        => /\ result = Refresh /\ alive = "ready" /\ selection # None
           /\ \A key \in ExtractedKeys : Unwrap(selection)[key] = FirstWithId(key)

\* C19 as amended: each extracted value is the value of the first entry
\* whose id is the key and which has a value, absent when there is no such
\* entry; and the extraction of a record that decodes never fails.
C19_FirstEntryWithValue ==
    RecordFetched
        => /\ result = Refresh /\ alive = "ready" /\ selection # None
           /\ \A key \in ExtractedKeys : Unwrap(selection)[key] = FirstWithValue(key)

\* The first username entry had no value and the value of the second was taken.
C19_Witness ==
    /\ RecordFetched
    /\ Len(Record) = 2
    /\ Record[1].id = "username" /\ Record[1].value = None
    /\ Unwrap(selection).username = Some(<< "v" >>)

\* C20: the one-time-password slot (2) is offered if and only if some entry
\* of the detail record has type "OTP", whatever its id and with or without
\* a value; the selection stores no one-time password, and the payload of
\* the slot is the trimmed output of the command run at the pick.
C20_OtpSlotIffOtpType ==
    [][ /\ RefreshStep
          => (Offered(2)' <=> \E j \in 1..Len(Record) : Record[j].tpe = "OTP")
        /\ FieldPicking'
          => /\ DOMAIN Unwrap(selection') = SelectionFields
             /\ Unwrap(selection').has_otp \in BOOLEAN
        /\ (last'.fn = "handler" /\ held' /\ last'.id = Some(2) /\ alive' = "ready")
          => /\ Len(cmds') = 1
             /\ result' = Copy(Trim(Unwrap(cmds'[1].out.stdout).chars))
      ]_vars

\* The only entry of the record has type OTP, another id and no value: the
\* field list is the one-time-password slot alone.
C20_Witness ==
    /\ last.fn = "get_matches" /\ held /\ FieldPicking
    /\ matches = << Match(<< "One-time password" >>, 2) >>

=============================================================================
